---- MODULE Spec2Model ----
(***************************************************************************)
(* Model of the two programs of the repository:                            *)
(*   - split_datasets.py: main() and the frame builders it calls;          *)
(*   - src/data/datasets/copy_paste.py: the CopyPasteDataset adapter.      *)
(* File names are sequences of one-character strings, so that the code's   *)
(* indexing into names (File.str[5], stem[10]) is computed, not assumed.   *)
(* A path is the sequence of its components.  A data frame is the sequence *)
(* of its rows, a row a record of its columns.                             *)
(***************************************************************************)
EXTENDS Integers, Sequences, FiniteSets, TLC

VARIABLES
    program,            \* which entry point this run executes
    \* ---- split_datasets.py ----
    exclude_grader_1,   \* opt.exclude_grader_1
    predict_grades,     \* opt.predict_grades
    fgadr_csv,          \* rows of DR_Seg_Grading_Label.csv
    idrid_img_dir,      \* entries below <idrid_processed_dir>/img
    checkpoint_exists,  \* results/resnet/eyepacs/checkpoints/model_latest.pth
    pc,                 \* position of main()
    exc,                \* the exception main() ended with, where it was raised
    fgadr_df,
    idrid_df,
    written,            \* the CSV files written so far, in order
    \* ---- copy_paste.py ----
    all_files,          \* what label_path.glob("**/*") returns
    cp_pc,              \* "new", "ready" (constructed) or "failed"
    cp_exc,             \* the exception of the last CopyPasteDataset call
    n_samples,
    files,
    grades,
    return_label,
    return_grade,
    return_transformed,
    transforms,         \* which of the three transforms are not None
    ret_kind,           \* what the last call returned: "none", "len", "dict", "raise"
    ret_item,           \* the index given to the last __getitem__
    ret_len,            \* the value of the last __len__
    sample              \* the dict of the last __getitem__

split_vars == <<exclude_grader_1, predict_grades, fgadr_csv, idrid_img_dir,
                checkpoint_exists, pc, exc, fgadr_df, idrid_df, written>>
cp_vars == <<all_files, cp_pc, cp_exc, n_samples, files, grades, return_label,
             return_grade, return_transformed, transforms, ret_kind, ret_item,
             ret_len, sample>>
vars == <<program, split_vars, cp_vars>>

(***************************************************************************)
(* Bounds                                                                  *)
(***************************************************************************)
MaxRows == 2        \* rows of the FGADR grading CSV
MaxGlob == 3        \* entries of the copy-paste label directory

(***************************************************************************)
(* Strings                                                                 *)
(***************************************************************************)
DigitChars == <<"0", "1", "2", "3", "4", "5", "6", "7", "8", "9">>

IsDigit(c) == \E d \in 1..Len(DigitChars) : DigitChars[d] = c

\* int("7") = 7
DigitVal(c) == (CHOOSE d \in 1..Len(DigitChars) : DigitChars[d] = c) - 1

\* The characters of the names used below, in code point order.
Alphabet == <<".", "0", "1", "2", "3", "4", "5", "6", "7", "8", "9",
              "I", "_", "a", "b", "c", "e", "g", "n", "o", "p", "s", "t",
              "u", "x", "y">>

Ord(c) == CHOOSE k \in 1..Len(Alphabet) : Alphabet[k] = c

\* Python's str <: lexicographic by code point, a proper prefix first.
RECURSIVE StrLess(_, _)
StrLess(a, b) ==
    IF b = <<>> THEN FALSE
    ELSE IF a = <<>> THEN TRUE
    ELSE IF Ord(Head(a)) < Ord(Head(b)) THEN TRUE
    ELSE IF Ord(Head(a)) > Ord(Head(b)) THEN FALSE
    ELSE StrLess(Tail(a), Tail(b))

RECURSIVE Insert(_, _)
Insert(x, s) ==
    IF s = <<>> THEN <<x>>
    ELSE IF StrLess(x, Head(s)) THEN <<x>> \o s
    ELSE <<Head(s)>> \o Insert(x, Tail(s))

\* list.sort()
RECURSIVE Sort(_)
Sort(s) == IF s = <<>> THEN <<>> ELSE Insert(Head(s), Sort(Tail(s)))

Last(s) == s[Len(s)]

\* PurePath.name: the final component
Name(path) == Last(path)

\* Sequences over S of length at most n.
SeqsUpTo(S, n) == UNION {[1..k -> S] : k \in 0..n}

Range(s) == {s[i] : i \in DOMAIN s}

(***************************************************************************)
(* split_datasets.py : inputs                                              *)
(***************************************************************************)
\* FGADR image names are NNNN_G.png, G the grader.
Fgadr_0000_1 == <<"0", "0", "0", "0", "_", "1", ".", "p", "n", "g">>
Fgadr_0001_2 == <<"0", "0", "0", "1", "_", "2", ".", "p", "n", "g">>
Fgadr_short  == <<"0", "1", "_", "1">>
Fgadr_0003_x == <<"0", "0", "0", "3", "_", "x", ".", "p", "n", "g">>

FgadrNames == {Fgadr_0000_1, Fgadr_0001_2, Fgadr_short, Fgadr_0003_x}

\* The Grade column of the grading CSV is read as it stands.
CsvGrades == {4, 5}

CsvRows == [File : FgadrNames, Grade : CsvGrades]

Idrid_I01 == <<"I", "0", "1", ".", "p", "n", "g">>
Idrid_I02 == <<"I", "0", "2", ".", "p", "n", "g">>
SubDir == <<"s", "u", "b">>

\* Entries below the IDRiD image directory, as paths relative to it.
IdridEntries == {<<Idrid_I02>>, <<Idrid_I01>>}

\* Option values (command line)
fgadr_original_dir == <<"fgadr_original">>
fgadr_processed_dir == <<"processed", "fgadr">>
idrid_processed_dir == <<"processed", "idrid">>

\* Values of --train_size, as numerator and denominator
TrainSizes == {<<1, 2>>, <<4, 5>>}

(***************************************************************************)
(* split_datasets.py : the frame builders                                  *)
(***************************************************************************)
GraderIndex == 5    \* File.str[5]
RandintHigh == 5    \* np.random.randint(0, 5, ...), end point exclusive
NumClasses == 5     \* nn.Linear(fc_n_features, 5)

NoExc == [type |-> "none", in |-> "none"]
Raise(t, f) == [type |-> t, in |-> f]

\* The names bound at module level of split_datasets.py: its imports and its defs.
ModuleGlobals == {"Path", "np", "pd", "torch", "T", "Image", "train_test_split",
                  "nn", "models", "get_args", "CropShortEdge",
                  "load_model", "make_fgadr", "make_idrid", "predict_idrid",
                  "make_absolute_paths", "main"}

\* A row with one more column (or one column overwritten).
WithCol(row, col, v) ==
    [c \in (DOMAIN row) \cup {col} |-> IF c = col THEN v ELSE row[c]]

\* Path / "name"
Div(path, comp) == Append(path, comp)

\* str(path) + "/" + file
StrPlusFile(path, file) == Append(path, file)

\* Faulty variant: the label and inst directories exchanged.
make_absolute_paths_mut(df, image_path, label_path, inst_path) ==
    [i \in DOMAIN df |->
        WithCol(WithCol(WithCol(df[i],
            "Image", StrPlusFile(image_path, df[i].File)),
            "Label", StrPlusFile(inst_path, df[i].File)),
            "Instance", StrPlusFile(label_path, df[i].File))]

make_absolute_paths(df, image_path, label_path, inst_path) ==
    [i \in DOMAIN df |->
        WithCol(WithCol(WithCol(df[i],
            "Image", StrPlusFile(image_path, df[i].File)),
            "Label", StrPlusFile(label_path, df[i].File)),
            "Instance", StrPlusFile(inst_path, df[i].File))]

\* Series.str[k]: the character at index k (from 0), NaN (here <<>>) when the
\* string is too short.
StrGet(s, k) == IF Len(s) > k THEN <<s[k + 1]>> ELSE <<>>

\* pd.to_numeric accepts an element if it is NaN or parses as a number.
Parses(x) == x = <<>> \/ IsDigit(x[1])

to_numeric(x) == [nan |-> x = <<>>, val |-> IF x = <<>> THEN 0 ELSE DigitVal(x[1])]

\* Faulty variant: the comparison inverted (grader == 1).
not_grader_1_cond_mut(file) ==
    LET grader == to_numeric(StrGet(file, GraderIndex))
    IN  ~grader.nan /\ grader.val = 1

\* grader != 1, NaN != 1 being True
not_grader_1_cond(file) ==
    LET grader == to_numeric(StrGet(file, GraderIndex))
    IN  grader.nan \/ grader.val # 1

KeepRow(row) == not_grader_1_cond(row.File)

make_fgadr(original_dir, processed_dir, exclude, csv) ==
    LET fgadr_image_path == Div(original_dir, "Original_Images")
        fgadr_label_path == Div(processed_dir, "label")
        fgadr_inst_path  == Div(processed_dir, "inst")
        unparsed == \E i \in DOMAIN csv : ~Parses(StrGet(csv[i].File, GraderIndex))
        kept == IF exclude THEN SelectSeq(csv, KeepRow) ELSE csv
        paths == make_absolute_paths(kept, fgadr_image_path, fgadr_label_path,
                                     fgadr_inst_path)
    IN  IF csv = <<>>
        THEN \* pd.read_csv of a file without a line: EmptyDataError
             [exc |-> Raise("EmptyDataError", "make_fgadr"), df |-> <<>>]
        ELSE IF exclude /\ unparsed
        THEN \* pd.to_numeric of a character that is no number
             [exc |-> Raise("ValueError", "make_fgadr"), df |-> <<>>]
        ELSE [exc |-> NoExc,
              df |-> [i \in DOMAIN paths |-> WithCol(paths[i], "Source", "FGADR")]]

\* [f.name for f in idrid_image_path.glob("**/*")], in the order the glob gives
\* (any order: the sort that follows does not depend on it).
GlobNames(entries) ==
    LET order == CHOOSE s \in [1..Cardinality(entries) -> entries] : Range(s) = entries
    IN  [i \in DOMAIN order |-> Name(order[i])]

\* Faulty variant: the end point taken as inclusive.
randint_range_mut == 0..RandintHigh

\* the values of np.random.randint(0, 5)
randint_range == 0..(RandintHigh - 1)

\* the values of torch.argmax over the 5 outputs of the network
argmax_range == 0..(NumClasses - 1)

\* make_idrid up to the assignment of the grades: lines 78-91
idrid_paths(processed_dir, entries) ==
    LET idrid_image_path == Div(processed_dir, "img")
        idrid_label_path == Div(processed_dir, "label")
        idrid_inst_path  == Div(processed_dir, "inst")
        idrid_files == Sort(GlobNames(entries))
        df == [i \in DOMAIN idrid_files |-> [File |-> idrid_files[i]]]
    IN  make_absolute_paths(df, idrid_image_path, idrid_label_path, idrid_inst_path)

\* lines 101-105
idrid_finish(df, noisy_grades) ==
    [i \in DOMAIN df |-> WithCol(WithCol(df[i], "Grade", noisy_grades[i]),
                                 "Source", "IDRiD")]

(***************************************************************************)
(* split_datasets.py : concat, split, write                                *)
(***************************************************************************)
DropCol(row, col) == [c \in (DOMAIN row) \ {col} |-> row[c]]

\* pd.concat((a, b, c)).drop("File", axis=1)
combine(a, b, c) ==
    LET all == a \o b \o c IN [i \in DOMAIN all |-> DropCol(all[i], "File")]

\* sklearn's sizes for a fractional train_size and no test_size:
\* n_train = floor(train_size * n), n_test = n - n_train
n_train_of(n, train_size) == (n * train_size[1]) \div train_size[2]

Permutations1(n) == {p \in [1..n -> 1..n] : \A i, j \in 1..n : p[i] = p[j] => i = j}

\* train_test_split(df, train_size=..., random_state=seed) with the permutation
\* the seed gives: the first n_test indices are the test set, the next n_train
\* the training set.
train_test_split(df, train_size, perm) ==
    LET n == Len(df)
        n_train == n_train_of(n, train_size)
        n_test == n - n_train
    IN  [train |-> [i \in 1..n_train |-> df[perm[n_test + i]]],
         test  |-> [i \in 1..n_test |-> df[perm[i]]]]

to_csv(name, df) == [name |-> name, rows |-> df]

(***************************************************************************)
(* split_datasets.py : main()                                              *)
(***************************************************************************)
SplitIdle ==
    /\ exclude_grader_1 = FALSE /\ predict_grades = FALSE
    /\ fgadr_csv = <<>> /\ idrid_img_dir = {} /\ checkpoint_exists = FALSE
    /\ pc = "idle" /\ exc = NoExc
    /\ fgadr_df = <<>> /\ idrid_df = <<>> /\ written = <<>>

\* lines 136-145: get_args, mkdir, make_fgadr
MakeFgadr ==
    /\ program = "split" /\ pc = "start"
    /\ LET r == make_fgadr(fgadr_original_dir, fgadr_processed_dir,
                           exclude_grader_1, fgadr_csv)
       IN  IF r.exc = NoExc
           THEN pc' = "fgadr_done" /\ fgadr_df' = r.df /\ exc' = exc
           ELSE pc' = "raised" /\ exc' = r.exc /\ fgadr_df' = fgadr_df
    /\ UNCHANGED <<program, exclude_grader_1, predict_grades, fgadr_csv,
                   idrid_img_dir, checkpoint_exists, idrid_df, written, cp_vars>>

\* line 147: make_idrid
MakeIdrid ==
    /\ program = "split" /\ pc = "fgadr_done"
    /\ LET df == idrid_paths(idrid_processed_dir, idrid_img_dir)
       IN  IF predict_grades
           THEN IF ~checkpoint_exists
                THEN \* torch.load of a missing checkpoint
                     /\ pc' = "raised"
                     /\ exc' = Raise("FileNotFoundError", "load_model")
                     /\ idrid_df' = idrid_df
                ELSE \/ \E predictions \in [DOMAIN df -> argmax_range] :
                            /\ pc' = "idrid_done"
                            /\ idrid_df' = idrid_finish(df, predictions)
                            /\ exc' = exc
                     \/ \* Image.open of an entry that is no image
                        /\ df # <<>>
                        /\ pc' = "raised"
                        /\ exc' = Raise("OSError", "predict_idrid")
                        /\ idrid_df' = idrid_df
           ELSE \E noisy_grades \in [DOMAIN df -> randint_range] :
                    /\ pc' = "idrid_done"
                    /\ idrid_df' = idrid_finish(df, noisy_grades)
                    /\ exc' = exc
    /\ UNCHANGED <<program, exclude_grader_1, predict_grades, fgadr_csv,
                   idrid_img_dir, checkpoint_exists, fgadr_df, written, cp_vars>>

\* lines 149-171.  Line 149 looks up the global name make_diaretdb1, which the
\* module neither defines nor imports: the lookup raises NameError.  The rest of
\* main() is what would run had the name been bound (to a function returning any
\* frame; the empty one stands for it here).
MainTail ==
    /\ program = "split" /\ pc = "idrid_done"
    /\ IF "make_diaretdb1" \in ModuleGlobals
       THEN \E diaretdb1_df \in {<<>>}, train_size \in TrainSizes :
              LET combined_df == combine(fgadr_df, idrid_df, diaretdb1_df)
                  n == Len(combined_df)
              IN  IF n = 0 \/ n_train_of(n, train_size) = 0
                  THEN \* sklearn: the resulting train set would be empty
                       /\ pc' = "raised"
                       /\ exc' = Raise("ValueError", "train_test_split")
                       /\ written' = written
                  ELSE \E perm \in Permutations1(n) :
                         LET s == train_test_split(combined_df, train_size, perm)
                         IN  /\ pc' = "written"
                             /\ exc' = exc
                             /\ written' = <<to_csv("data/all.csv", combined_df),
                                             to_csv("data/train.csv", s.train),
                                             to_csv("data/test.csv", s.test)>>
       ELSE /\ pc' = "raised"
            /\ exc' = Raise("NameError", "main")
            /\ written' = written
    /\ UNCHANGED <<program, exclude_grader_1, predict_grades, fgadr_csv,
                   idrid_img_dir, checkpoint_exists, fgadr_df, idrid_df, cp_vars>>

(***************************************************************************)
(* copy_paste.py : inputs                                                  *)
(***************************************************************************)
GradeIndex == 10    \* f.stem[10]

CpPrefix == <<"c", "o", "p", "y", "p", "a", "s", "t", "e", "_">>

\* copypaste_G_0000X.png
CpName(g, x) == CpPrefix \o <<g, "_", "0", "0", "0", "0", x, ".", "p", "n", "g">>

Cp_0_00001 == CpName("0", "1")
Cp_3_00002 == CpName("3", "2")
Cp_x_00004 == CpName("x", "4")

\* The entries that can lie below the label directory, as paths relative to it,
\* in the order the directory lists them.  "**/*" descends: it returns a
\* subdirectory and the files in it.
LabelDirOrder == << <<Cp_0_00001>>, <<Cp_3_00002>>, <<Cp_x_00004>>,
                    <<SubDir>>, <<SubDir, Cp_3_00002>> >>

\* An entry below a subdirectory comes with that subdirectory.
Closed(S) == \A e \in S : Len(e) > 1 => SubSeq(e, 1, Len(e) - 1) \in S

InSet(S) == LET Test(e) == e \in S IN SelectSeq(LabelDirOrder, Test)

Globs == {InSet(S) : S \in {T \in SUBSET Range(LabelDirOrder) :
                                Closed(T) /\ Cardinality(T) <= MaxGlob}}

\* The three transforms are all None (the defaults) or all given.
TransformChoices == {{}, {"image_transform", "label_transform", "common_transform"}}

(***************************************************************************)
(* copy_paste.py : CopyPasteDataset                                        *)
(***************************************************************************)
\* str.rfind("."), from 1; 0 when there is none
RFindDot(name) ==
    LET dots == {i \in DOMAIN name : name[i] = "."}
    IN  IF dots = {} THEN 0 ELSE CHOOSE i \in dots : \A j \in dots : j <= i

\* PurePath.stem: the name without its last suffix; a leading or a trailing dot
\* starts no suffix.
Stem(name) ==
    LET i == RFindDot(name)
    IN  IF 1 < i /\ i < Len(name) THEN SubSeq(name, 1, i - 1) ELSE name

\* Faulty variant: the digit read two characters too far.
grade_char_mut(stem) == stem[GradeIndex + 3]

\* stem[10]
grade_char(stem) == stem[GradeIndex + 1]

\* int(f.stem[10]) for one entry: the grade, or the exception it raises
grade_of(f) ==
    LET stem == Stem(Name(f))
    IN  IF Len(stem) <= GradeIndex THEN [exc |-> "IndexError", grade |-> 0]
        ELSE IF ~IsDigit(grade_char(stem)) THEN [exc |-> "ValueError", grade |-> 0]
        ELSE [exc |-> "none", grade |-> DigitVal(grade_char(stem))]

\* Faulty variant: a sample of size 0 refused.
sample_ok_mut(k, n) == 0 < k /\ k <= n

\* random.sample raises ValueError unless 0 <= k <= n
sample_ok(k, n) == 0 <= k /\ k <= n

\* Faulty variant: sampling with replacement (random.choices).
random_sample_mut(population, k) ==
    {[i \in 1..k |-> population[p[i]]] : p \in [1..k -> 1..Len(population)]}

\* the lists random.sample(population, k) can return: k positions, no position
\* twice, in any order
random_sample(population, k) ==
    {[i \in 1..k |-> population[p[i]]] :
        p \in {q \in [1..k -> 1..Len(population)] :
                  \A i, j \in 1..k : q[i] = q[j] => i = j}}

\* lines 41-44: the loop over subset_files
init_loop(subset_files) ==
    LET bad == {i \in DOMAIN subset_files : grade_of(subset_files[i]).exc # "none"}
    IN  IF bad # {}
        THEN [exc |-> grade_of(subset_files[CHOOSE i \in bad : \A j \in bad : i <= j]).exc,
              files |-> <<>>, grades |-> <<>>]
        ELSE [exc |-> "none",
              files |-> [i \in DOMAIN subset_files |-> Name(subset_files[i])],
              grades |-> [i \in DOMAIN subset_files |-> grade_of(subset_files[i]).grade]]

CpIdle ==
    /\ all_files = <<>> /\ cp_pc = "idle" /\ cp_exc = "none" /\ n_samples = -1
    /\ files = <<>> /\ grades = <<>>
    /\ return_label = TRUE /\ return_grade = TRUE /\ return_transformed = TRUE
    /\ transforms = {}
    /\ ret_kind = "none" /\ ret_item = 0 /\ ret_len = 0 /\ sample = <<>>

\* __init__
Construct(n, rl, rg, rt, tr) ==
    /\ program = "dataset" /\ cp_pc = "new"
    /\ n_samples' = n
    /\ IF n # -1 /\ ~sample_ok(n, Len(all_files))
       THEN /\ cp_pc' = "failed" /\ cp_exc' = "ValueError"
            /\ UNCHANGED <<files, grades, return_label, return_grade,
                           return_transformed, transforms>>
       ELSE \E subset_files \in (IF n = -1 THEN {all_files}
                                 ELSE random_sample(all_files, n)) :
              LET r == init_loop(subset_files)
              IN  IF r.exc # "none"
                  THEN /\ cp_pc' = "failed" /\ cp_exc' = r.exc
                       /\ UNCHANGED <<files, grades, return_label, return_grade,
                                      return_transformed, transforms>>
                  ELSE /\ cp_pc' = "ready" /\ cp_exc' = "none"
                       /\ files' = r.files /\ grades' = r.grades
                       /\ return_label' = rl /\ return_grade' = rg
                       /\ return_transformed' = rt /\ transforms' = tr
    /\ UNCHANGED <<program, all_files, ret_kind, ret_item, ret_len, sample, split_vars>>

\* __len__
LenCall ==
    /\ program = "dataset" /\ cp_pc = "ready"
    /\ ret_kind' = "len" /\ ret_len' = Len(files)
    /\ UNCHANGED <<program, all_files, cp_pc, cp_exc, n_samples, files, grades,
                   return_label, return_grade, return_transformed, transforms,
                   ret_item, sample, split_vars>>

\* list[item] of Python: a negative index counts from the end; 0 when out of range
PyIndex(n, item) ==
    IF 0 <= item /\ item < n THEN item + 1
    ELSE IF -n <= item /\ item < 0 THEN n + item + 1
    ELSE 0

\* Faulty variant: "grade" set under return_label.
sample_keys_mut(rl, rt, rg) ==
    (IF rl THEN {"label"} ELSE {})
        \cup (IF rt THEN {"transformed"} ELSE {})
        \cup (IF rl THEN {"grade"} ELSE {})

\* the keys __getitem__ sets
sample_keys(rl, rt, rg) ==
    (IF rl THEN {"label"} ELSE {})
        \cup (IF rt THEN {"transformed"} ELSE {})
        \cup (IF rg THEN {"grade"} ELSE {})

\* An image read from a directory, and the transforms applied to it in order.
Img(dir, filename, applied) == [dir |-> dir, file |-> filename, applied |-> applied]

Applied(names) == SelectSeq(names, LAMBDA t : t \in transforms)

make_sample(filename, grade) ==
    [k \in sample_keys(return_label, return_transformed, return_grade) |->
        IF k = "label" THEN Img("label", filename, Applied(<<"label_transform">>))
        ELSE IF k = "transformed"
             THEN Img("transformed", filename,
                      Applied(<<"image_transform", "common_transform">>))
        ELSE grade]

\* Faulty variant: an access that drops the last file.
GetItemFrame_mut ==
    /\ files' = SubSeq(files, 1, Len(files) - 1)
    /\ UNCHANGED <<program, all_files, cp_pc, n_samples, grades,
                   return_label, return_grade, return_transformed, transforms,
                   ret_len, split_vars>>

\* what __getitem__ assigns to of the dataset: nothing
GetItemFrame ==
    UNCHANGED <<program, all_files, cp_pc, n_samples, files, grades,
                return_label, return_grade, return_transformed, transforms,
                ret_len, split_vars>>

\* __getitem__(item); the two files are opened at each access and may be missing
GetItem(item) ==
    /\ program = "dataset" /\ cp_pc = "ready"
    /\ ret_item' = item
    /\ LET i == PyIndex(Len(files), item)
       IN  IF i = 0
           THEN ret_kind' = "raise" /\ cp_exc' = "IndexError" /\ sample' = <<>>
           ELSE \E label_found, transformed_found \in BOOLEAN :
                  IF (return_label /\ ~label_found)
                     \/ (return_transformed /\ ~transformed_found)
                  THEN /\ ret_kind' = "raise"
                       /\ cp_exc' = "FileNotFoundError"
                       /\ sample' = <<>>
                  ELSE /\ ret_kind' = "dict"
                       /\ cp_exc' = "none"
                       /\ sample' = make_sample(files[i], grades[i])
    /\ GetItemFrame

(***************************************************************************)
(* The two programs                                                        *)
(***************************************************************************)
InitSplit ==
    /\ program = "split"
    /\ exclude_grader_1 \in BOOLEAN
    /\ predict_grades \in BOOLEAN
    /\ fgadr_csv \in SeqsUpTo(CsvRows, MaxRows)
    /\ idrid_img_dir \in SUBSET IdridEntries
    /\ checkpoint_exists \in BOOLEAN
    /\ pc = "start" /\ exc = NoExc
    /\ fgadr_df = <<>> /\ idrid_df = <<>> /\ written = <<>>
    /\ CpIdle

InitDataset ==
    /\ program = "dataset"
    /\ all_files \in Globs
    /\ cp_pc = "new" /\ cp_exc = "none" /\ n_samples = -1
    /\ files = <<>> /\ grades = <<>>
    /\ return_label = TRUE /\ return_grade = TRUE /\ return_transformed = TRUE
    /\ transforms = {}
    /\ ret_kind = "none" /\ ret_item = 0 /\ ret_len = 0 /\ sample = <<>>
    /\ SplitIdle

Init == InitSplit \/ InitDataset

Next ==
    \/ MakeFgadr
    \/ MakeIdrid
    \/ MainTail
    \/ \E n \in -2..(MaxGlob + 1), rl, rg, rt \in BOOLEAN, tr \in TransformChoices :
          Construct(n, rl, rg, rt, tr)
    \/ LenCall
    \/ \E item \in -(MaxGlob + 1)..MaxGlob : GetItem(item)

Spec == Init /\ [][Next]_vars

(***************************************************************************)
(* Properties                                                              *)
(***************************************************************************)
GradeRange == 0..4

\* main() has ended, and not while reading its inputs
MainEndedPastInputs ==
    /\ program = "split"
    /\ pc \in {"raised", "written"}
    /\ exc.in \notin {"make_fgadr", "load_model", "predict_idrid"}

WrittenNames == [i \in DOMAIN written |-> written[i].name]

\* C1: a run of main() whose inputs are readable ends with data/all.csv,
\* data/train.csv and data/test.csv written, in that order, after the split.
C1_MainWritesAllFiles ==
    MainEndedPastInputs =>
        /\ pc = "written"
        /\ WrittenNames = <<"data/all.csv", "data/train.csv", "data/test.csv">>

\* C2: when main() has ended, train.csv and test.csv partition the rows of
\* all.csv, and train.csv holds floor(train_size * n) of its n rows.
C2_SplitIsPartition ==
    MainEndedPastInputs =>
        /\ Len(written) = 3
        /\ LET all == written[1].rows
               train == written[2].rows
               test == written[3].rows
               both == train \o test
           IN  /\ Len(both) = Len(all)
               /\ \E p \in Permutations1(Len(all)) :
                     \A i \in DOMAIN all : both[i] = all[p[i]]
               /\ \E ts \in TrainSizes : Len(train) = n_train_of(Len(all), ts)

\* make_fgadr has returned its frame
FgadrBuilt ==
    /\ program = "split"
    /\ pc \in {"fgadr_done", "idrid_done", "raised", "written"}
    /\ exc.in # "make_fgadr"

\* make_idrid has returned its frame
IdridBuilt ==
    /\ program = "split"
    /\ pc \in {"idrid_done", "raised", "written"}
    /\ exc.in \notin {"make_fgadr", "load_model", "predict_idrid"}

\* C3 (as claimed): every record make_fgadr and make_idrid produce has a
\* Grade in 0..4.
C3_AllGradesInRange ==
    /\ \A i \in DOMAIN fgadr_df : fgadr_df[i].Grade \in GradeRange
    /\ \A i \in DOMAIN idrid_df : idrid_df[i].Grade \in GradeRange

\* C3 (amended): every record of make_idrid has a Grade in 0..4, with
\* predict_grades on or off; a record of make_fgadr carries the Grade of its
\* row of the grading CSV, whatever that is.
C3_IdridInRangeFgadrAsRead ==
    /\ \A i \in DOMAIN idrid_df : idrid_df[i].Grade \in GradeRange
    /\ \A i \in DOMAIN fgadr_df :
          \E j \in DOMAIN fgadr_csv :
              /\ fgadr_csv[j].File = fgadr_df[i].File
              /\ fgadr_csv[j].Grade = fgadr_df[i].Grade

C3_Witness ==
    /\ IdridBuilt
    /\ Len(idrid_df) = 2
    /\ \E i \in DOMAIN fgadr_df : fgadr_df[i].Grade \notin GradeRange

\* <root>/img/F, <root>/label/F, <root>/inst/F for one root
OneRootLayout(row) ==
    LET root == SubSeq(row.Image, 1, Len(row.Image) - 2)
    IN  /\ row.Image = root \o <<"img", row.File>>
        /\ row.Label = root \o <<"label", row.File>>
        /\ row.Instance = root \o <<"inst", row.File>>

\* C4 (as claimed): FGADR and IDRiD records alike have their three paths
\* below one root directory, in img, label and inst.
C4_PathsBelowOneRoot ==
    /\ \A i \in DOMAIN fgadr_df : OneRootLayout(fgadr_df[i])
    /\ \A i \in DOMAIN idrid_df : OneRootLayout(idrid_df[i])

\* C4 (amended): an IDRiD record has its paths below the processed directory,
\* in img, label and inst; an FGADR record has its image in Original_Images
\* below the original directory, and its label and instance in label and inst
\* below the processed directory.
C4_PathsPerDataset ==
    /\ \A i \in DOMAIN idrid_df :
          LET r == idrid_df[i]
          IN  /\ r.Image = idrid_processed_dir \o <<"img", r.File>>
              /\ r.Label = idrid_processed_dir \o <<"label", r.File>>
              /\ r.Instance = idrid_processed_dir \o <<"inst", r.File>>
    /\ \A i \in DOMAIN fgadr_df :
          LET r == fgadr_df[i]
          IN  /\ r.Image = fgadr_original_dir \o <<"Original_Images", r.File>>
              /\ r.Label = fgadr_processed_dir \o <<"label", r.File>>
              /\ r.Instance = fgadr_processed_dir \o <<"inst", r.File>>

C4_Witness == IdridBuilt /\ idrid_df # <<>> /\ Len(fgadr_df) = MaxRows

\* the grader digit of an FGADR name is 1
IsGrader1(file) == Len(file) >= 6 /\ file[6] = "1"

NotGrader1Row(row) == ~IsGrader1(row.File)

FileAndGrade(df) == [i \in DOMAIN df |-> <<df[i].File, df[i].Grade>>]

\* C7: with exclude_grader_1 the frame of make_fgadr holds exactly the rows of
\* the CSV whose grader digit is not 1, in order; without it, every row.
C7_ExcludeGrader1 ==
    FgadrBuilt =>
        FileAndGrade(fgadr_df) =
            FileAndGrade(IF exclude_grader_1
                         THEN SelectSeq(fgadr_csv, NotGrader1Row)
                         ELSE fgadr_csv)

C7_Witness ==
    /\ FgadrBuilt
    /\ exclude_grader_1
    /\ \E i \in DOMAIN fgadr_csv : IsGrader1(fgadr_csv[i].File)
    /\ fgadr_df # <<>>

Constructed == program = "dataset" /\ cp_pc = "ready"

\* C5: after construction files and grades are as long as each other, and
\* grades[i] is the value of the digit at offset 10 of files[i].
C5_GradeFromName ==
    Constructed =>
        /\ Len(files) = Len(grades)
        /\ \A i \in DOMAIN files :
              /\ Len(files[i]) > 10
              /\ IsDigit(files[i][11])
              /\ grades[i] = DigitVal(files[i][11])

C5_Witness ==
    /\ Constructed
    /\ Len(files) >= 2
    /\ \E i \in DOMAIN grades : grades[i] = 3

\* C6: no __len__ and no __getitem__ changes files or grades, and __len__
\* gives the same value at every call.
C6_SampleListImmutable ==
    [][Constructed =>
          /\ files' = files
          /\ grades' = grades
          /\ (ret_kind = "len" /\ ret_kind' = "len" => ret_len' = ret_len)]_vars

C6_Witness == Constructed /\ ret_kind = "dict" /\ Len(files) >= 2

\* C9: the dict of __getitem__(i) has "label" iff return_label, "transformed"
\* iff return_transformed, "grade" iff return_grade, and nothing else; its
\* "grade" is grades[i].
C9_SampleKeys ==
    (Constructed /\ ret_kind = "dict") =>
        /\ \A k \in DOMAIN sample : k \in {"label", "transformed", "grade"}
        /\ ("label" \in DOMAIN sample) = return_label
        /\ ("transformed" \in DOMAIN sample) = return_transformed
        /\ ("grade" \in DOMAIN sample) = return_grade
        /\ return_grade =>
              sample["grade"] = IF ret_item >= 0 THEN grades[ret_item + 1]
                                ELSE grades[Len(grades) + ret_item + 1]

C9_Witness ==
    /\ Constructed /\ ret_kind = "dict"
    /\ return_label /\ ~return_transformed /\ return_grade
    /\ ret_item = 1

\* copypaste_G_..., G a digit
WellFormed(entry) ==
    LET name == entry[Len(entry)]
    IN  /\ Len(name) > Len(CpPrefix) + 1
        /\ SubSeq(name, 1, Len(CpPrefix)) = CpPrefix
        /\ IsDigit(name[Len(CpPrefix) + 1])
        /\ name[Len(CpPrefix) + 2] = "_"

\* C10: n_samples = -1 keeps every globbed entry; 0 <= n_samples <= the number
\* of globbed entries keeps n_samples of them, no entry twice; any other
\* n_samples fails the construction.  (An entry whose name is not of the form
\* copypaste_G_... fails it as well.)
C10_SampleSelection ==
    (program = "dataset" /\ cp_pc \in {"ready", "failed"}) =>
        LET m == Len(all_files)
            in_range == n_samples = -1 \/ (0 <= n_samples /\ n_samples <= m)
        IN  /\ (cp_pc = "ready" /\ n_samples = -1) =>
                  files = [i \in 1..m |-> all_files[i][Len(all_files[i])]]
            /\ (cp_pc = "ready" /\ n_samples # -1) =>
                  /\ in_range
                  /\ Len(files) = n_samples
                  /\ \E p \in [1..n_samples -> 1..m] :
                        /\ \A i, j \in 1..n_samples : p[i] = p[j] => i = j
                        /\ \A i \in 1..n_samples :
                              files[i] = all_files[p[i]][Len(all_files[p[i]])]
            /\ ~in_range =>
                  cp_pc = "failed" /\ cp_exc = "ValueError" /\ files = <<>>
            /\ (in_range /\ \A i \in 1..m : WellFormed(all_files[i])) =>
                  cp_pc = "ready"
            /\ ret_kind = "len" => ret_len = Len(files)

C10_Witness ==
    /\ Constructed
    /\ n_samples = 2 /\ Len(all_files) = 3
    /\ ret_kind = "len" /\ ret_len = 2

\* C8 (as claimed): an empty glob ends make_idrid and the construction of a
\* CopyPasteDataset with an exception.
C8_EmptyGlobRaises ==
    /\ ~(IdridBuilt /\ idrid_img_dir = {})
    /\ ~(Constructed /\ all_files = <<>>)

\* C8 (amended): make_idrid on an empty image directory returns an empty frame
\* (it raises only for a missing checkpoint, with predict_grades on); the
\* construction on an empty label directory gives an empty dataset for
\* n_samples -1 and 0, and fails with ValueError for any other n_samples.
C8_EmptyGlobOutcome ==
    /\ (program = "split" /\ idrid_img_dir = {}
            /\ pc \in {"idrid_done", "raised", "written"}
            /\ exc.in # "make_fgadr") =>
          /\ exc.in # "predict_idrid"
          /\ exc.in = "load_model" => (predict_grades /\ ~checkpoint_exists)
          /\ IdridBuilt => idrid_df = <<>>
    /\ (program = "dataset" /\ all_files = <<>> /\ cp_pc \in {"ready", "failed"}) =>
          IF n_samples \in {-1, 0}
          THEN cp_pc = "ready" /\ files = <<>> /\ grades = <<>>
          ELSE cp_pc = "failed" /\ cp_exc = "ValueError"

C8_Witness == Constructed /\ all_files = <<>> /\ n_samples = 0 /\ ret_kind = "len"

====
